---- MODULE Spec2Model ----
(***************************************************************************)
(* A model of llm_provider.LLMProvider and prompt_handler.PromptHandler.   *)
(*                                                                         *)
(* Text is a sequence of one-character strings, so that str.split,         *)
(* str.join and str.format are computed rather than assumed.  A Python     *)
(* object is a record with a "kind" field; a raised exception is a record  *)
(* of kind "raise" carrying the exception type and its message.            *)
(*                                                                         *)
(* Two specifications:                                                     *)
(*   SpecPack  runs the loop of make_chunks (the chunk packer) on prompt   *)
(*             lists and budgets drawn from bounded sets;                  *)
(*   Spec      is an LLMProvider instance after __init__, on which query   *)
(*             and the three process_* methods are called.                 *)
(***************************************************************************)
EXTENDS Integers, Sequences, FiniteSets, TLC

\* ------------------------------------------------------------------ bounds

\* longest prompt list handed to make_chunks
MaxPrompts == 3
\* largest max_tokens handed to make_chunks
MaxBudget == 10
\* most records in a DataFrame / Series given to a process_* method
MaxRows == 2
\* largest max_tokens an LLMProvider is constructed with
MaxTokens == 3

\* -------------------------------------------------------------------- text

SP == " "
NL == "\n"

\* the characters str.split() (no argument) treats as separators
IsSpace(c) == c \in {SP, NL}

\* str.join: the strings of parts with sep between neighbours
RECURSIVE join(_, _)
join(sep, parts) ==
    IF parts = <<>> THEN <<>>
    ELSE IF Len(parts) = 1 THEN parts[1]
    ELSE parts[1] \o sep \o join(sep, Tail(parts))

\* len(text.split()): the number of maximal runs of non-separator characters
count_tokens(text) ==
    Cardinality({i \in 1..Len(text) :
                   /\ ~IsSpace(text[i])
                   /\ (i = 1 \/ IsSpace(text[i - 1]))})

\* ---------------------------------------------------------- Python values

\* Python's None
None == [kind |-> "None"]

\* a str that the model never looks inside (a model name, an API key)
Str(v) == [kind |-> "str", v |-> v]

\* bool(x) for the values tested in a condition
Truthy(x) == x.kind # "None" /\ (x.kind = "str" => x.v # "")

\* how a call ends: with a value, or with an exception of a type
Return(v) == [kind |-> "return", value |-> v]
Raise(type, msg) == [kind |-> "raise", type |-> type, msg |-> msg]

\* ---------------------------------------------------------- the chunk packer

\* the locals of make_chunks before its loop
make_chunks_init == [chunks |-> <<>>, sub_chunks |-> <<>>, token |-> 0]

\* the iteration with the budget tested before the prompt is counted
make_chunks_step_unadded(st, prompt, max_tokens) ==
    LET prompt_len == count_tokens(prompt) IN
    IF st.token <= max_tokens
    THEN [chunks     |-> st.chunks,
          sub_chunks |-> Append(st.sub_chunks, prompt),
          token      |-> st.token + prompt_len]
    ELSE [chunks     |-> Append(st.chunks, join(<<NL>>, st.sub_chunks)),
          sub_chunks |-> <<prompt>>,
          token      |-> prompt_len]

\* the iteration with a strict comparison against the budget
make_chunks_step_strict(st, prompt, max_tokens) ==
    LET prompt_len == count_tokens(prompt) IN
    IF prompt_len + st.token < max_tokens
    THEN [chunks     |-> st.chunks,
          sub_chunks |-> Append(st.sub_chunks, prompt),
          token      |-> st.token + prompt_len]
    ELSE [chunks     |-> Append(st.chunks, join(<<NL>>, st.sub_chunks)),
          sub_chunks |-> <<prompt>>,
          token      |-> prompt_len]

\* one iteration of "for prompt in prompts" on the locals st
make_chunks_step(st, prompt, max_tokens) ==
    LET prompt_len == count_tokens(prompt) IN
    IF prompt_len + st.token <= max_tokens
    THEN [chunks     |-> st.chunks,
          sub_chunks |-> Append(st.sub_chunks, prompt),
          token      |-> st.token + prompt_len]
    ELSE [chunks     |-> Append(st.chunks, join(<<NL>>, st.sub_chunks)),
          sub_chunks |-> <<prompt>>,
          token      |-> prompt_len]

\* the end of the loop with the left-over prompts forgotten
make_chunks_flush_forgotten(st) == st

\* "if sub_chunks: chunks.append(...)" after the loop
make_chunks_flush(st) ==
    IF st.sub_chunks # <<>>
    THEN [st EXCEPT !.chunks = Append(st.chunks, join(<<NL>>, st.sub_chunks))]
    ELSE st

\* the locals after the whole loop over prompts
RECURSIVE make_chunks_loop(_, _, _)
make_chunks_loop(st, prompts, max_tokens) ==
    IF prompts = <<>> THEN st
    ELSE make_chunks_loop(make_chunks_step(st, Head(prompts), max_tokens),
                          Tail(prompts), max_tokens)

\* the list named chunks when make_chunks reaches its last line
make_chunks_chunks(prompts, max_tokens) ==
    make_chunks_flush(make_chunks_loop(make_chunks_init, prompts, max_tokens)).chunks


\* what the call make_chunks(prompts, max_tokens) evaluates to: the function
\* has no return statement
make_chunks(prompts, max_tokens) == None

\* ------------------------------------------------------------ PromptHandler

Lit(c) == [kind |-> "lit", v |-> c]
\* a replacement field "{name}"
Field(name) == [kind |-> "field", v |-> name]
\* an auto-numbered replacement field "{}"
Auto == [kind |-> "auto", v |-> ""]

\* keyword arguments of a call that passes none
NoKwargs == [k \in {} |-> <<>>]

\* str.format on a parsed template: args are the positional arguments, kwargs
\* the keyword arguments, next the number of the next auto-numbered field
RECURSIVE format(_, _, _, _)
format(template, args, kwargs, next) ==
    IF template = <<>> THEN Return(<<>>)
    ELSE
      LET part == Head(template)
          here == CASE part.kind = "lit" -> Return(<<part.v>>)
                    [] part.kind = "field" ->
                         IF part.v \in DOMAIN kwargs
                         THEN Return(kwargs[part.v])
                         ELSE Raise("KeyError", part.v)
                    [] OTHER ->
                         IF next <= Len(args)
                         THEN Return(args[next])
                         ELSE Raise("IndexError",
                                    "Replacement index out of range for positional args tuple")
          rest == format(Tail(template), args, kwargs,
                         IF part.kind = "auto" THEN next + 1 ELSE next)
      IN IF here.kind = "raise" THEN here
         ELSE IF rest.kind = "raise" THEN rest
         ELSE Return(here.value \o rest.value)

\* PromptHandler(prompt_template)
PromptHandler(prompt_template) == [prompt_template |-> prompt_template]

\* PromptHandler.generate_prompt_df(**kwargs)
generate_prompt_df(handler, kwargs) == format(handler.prompt_template, <<>>, kwargs, 1)

\* PromptHandler.generate_prompt_srs(args)
generate_prompt_srs(handler, args) == format(handler.prompt_template, <<args>>, NoKwargs, 1)

\* -------------------------------------------------------------- LLMProvider

\* the methods class LLMProvider defines
Methods == {"query", "_query_openai", "_query_huggingface", "_convert_to_dicts",
            "process_row_by_row", "process_in_one_big_chunk", "process_in_chunks",
            "count_tokens"}

\* transformers.pipeline('text-generation', model=hf_model)
pipeline(task, model) == [kind |-> "pipeline", task |-> task, model |-> model]

\* LLMProvider.__init__: the instance's attributes by name
LLMProvider(provider, api_key, prompt_template, max_tokens, hf_model) ==
    LET base == [provider       |-> provider,
                 api_key        |-> api_key,
                 max_tokens     |-> max_tokens,
                 hf_model       |-> hf_model,
                 prompt_handler |-> PromptHandler(prompt_template)]
    IN IF provider = "huggingface" /\ Truthy(hf_model)
       THEN ("hf_pipline" :> pipeline("text-generation", hf_model)) @@ base
       ELSE base

\* whether self.<name> resolves (an instance attribute or a method)
HasAttr(slf, name) == name \in DOMAIN slf \/ name \in Methods

NoAttr(name) == Raise("AttributeError", name)

\* the text a backend generates for a prompt
Generated(prompt) == [kind |-> "generated", reply_to |-> prompt]

\* the exception a backend call ends with when the backend does not answer
BackendError == Raise("ProviderError", "backend call failed")

\* LLMProvider._query_openai: one openai.Completion.create call; answers says
\* whether the service answers it
_query_openai(slf, prompt, answers) ==
    LET call == [backend |-> "openai", engine |-> "text-davinci-003",
                 prompt |-> prompt, limit |-> slf.max_tokens]
    IN [out   |-> IF answers THEN Return(Generated(prompt)) ELSE BackendError,
        calls |-> <<call>>]

\* LLMProvider._query_huggingface
_query_huggingface(slf, prompt, answers) ==
    IF ~HasAttr(slf, "hf_pipeline")
    THEN [out |-> NoAttr("hf_pipeline"), calls |-> <<>>]
    ELSE IF ~Truthy(slf["hf_pipeline"])
    THEN [out   |-> Raise("ValueError", "Hugging Face pipeline is not initialized. Please provide a valid Hugging Face model."),
          calls |-> <<>>]
    ELSE LET call == [backend |-> "huggingface", engine |-> slf["hf_pipeline"].model.v,
                      prompt |-> prompt, limit |-> slf.max_tokens]
         IN [out   |-> IF answers THEN Return(Generated(prompt)) ELSE BackendError,
             calls |-> <<call>>]

\* LLMProvider.query
query(slf, prompt, answers) ==
    IF slf.provider = "openai" THEN _query_openai(slf, prompt, answers)
    ELSE IF slf.provider = "huggingface" THEN _query_huggingface(slf, prompt, answers)
    ELSE [out |-> Raise("ValueError", "Unsupported provider"), calls |-> <<>>]

\* pandas inputs: a DataFrame is its records (one dict per row), a Series its
\* values; anything else is of kind "other"
DataFrame(records) == [kind |-> "DataFrame", items |-> records]
Series(values) == [kind |-> "Series", items |-> values]
Other == [kind |-> "other", items |-> <<>>]

\* LLMProvider._convert_to_dicts
_convert_to_dicts(rows) ==
    IF rows.kind = "DataFrame" THEN Return(rows.items)
    ELSE IF rows.kind = "Series" THEN Return(rows.items)
    ELSE Raise("TypeError", "Pass either pandas Data Frame or pandas Series")

\* the prompt of one record, by the input's kind
generate_prompt(slf, kind, row) ==
    IF kind = "DataFrame" THEN generate_prompt_df(slf.prompt_handler, row)
    ELSE generate_prompt_srs(slf.prompt_handler, row)

\* "[generate_prompt(row) for row in rows]": the prompts, or the first exception
RECURSIVE formated_rows(_, _, _)
formated_rows(slf, kind, items) ==
    IF items = <<>> THEN Return(<<>>)
    ELSE LET p == generate_prompt(slf, kind, Head(items))
             rest == formated_rows(slf, kind, Tail(items))
         IN IF p.kind = "raise" THEN p
            ELSE IF rest.kind = "raise" THEN rest
            ELSE Return(<<p.value>> \o rest.value)

\* what a method call leaves behind: how it ended, the prompts it passed to
\* self.query, the backend calls made
Ended(out, queries, calls) == [out |-> out, queries |-> queries, calls |-> calls]

\* the loop of process_row_by_row over the records still to do; fail_at is the
\* number of the backend call that is not answered (0: all are)
RECURSIVE row_loop(_, _, _, _, _, _, _)
row_loop(slf, kind, items, fail_at, queries, calls, results) ==
    IF items = <<>> THEN Ended(Return(results), queries, calls)
    ELSE LET p == generate_prompt(slf, kind, Head(items)) IN
         IF p.kind = "raise" THEN Ended(p, queries, calls)
         ELSE LET q == query(slf, p.value, Len(calls) + 1 # fail_at) IN
              IF q.out.kind = "raise"
              THEN Ended(q.out, Append(queries, p.value), calls \o q.calls)
              ELSE row_loop(slf, kind, Tail(items), fail_at,
                            Append(queries, p.value), calls \o q.calls,
                            Append(results, q.out.value))

\* LLMProvider.process_row_by_row
process_row_by_row(slf, rows, fail_at) ==
    IF rows.kind \in {"DataFrame", "Series"}
    THEN row_loop(slf, rows.kind, _convert_to_dicts(rows).value, fail_at,
                  <<>>, <<>>, <<>>)
    ELSE Ended(Raise("TypeError", "Input should be of type Pandas DataFrame or Series"),
               <<>>, <<>>)

\* the limit test off by one
exceeds_limit_late(tokens, max_tokens) == tokens > max_tokens + 1

\* "self.count_tokens(prompts)>self.max_tokens"
exceeds_limit(tokens, max_tokens) == tokens > max_tokens

\* LLMProvider.process_in_one_big_chunk
process_in_one_big_chunk(slf, rows, fail_at) ==
    IF rows.kind \in {"DataFrame", "Series"}
    THEN LET rendered == formated_rows(slf, rows.kind, _convert_to_dicts(rows).value) IN
         IF rendered.kind = "raise" THEN Ended(rendered, <<>>, <<>>)
         ELSE LET prompts == join(<<NL>>, rendered.value) IN
              IF exceeds_limit(count_tokens(prompts), slf.max_tokens)
              THEN Ended(Raise("ValueError", "Total prompt exceeds the maximum token limit"),
                         <<>>, <<>>)
              ELSE IF ~HasAttr(slf, "querry")
              THEN Ended(NoAttr("querry"), <<>>, <<>>)
              ELSE LET q == query(slf, prompts, 1 # fail_at) IN
                   Ended(q.out, <<prompts>>, q.calls)
    ELSE Ended(Raise("TypeError", "Input should be of type Pandas DataFrame or Series"),
               <<>>, <<>>)

\* a Python list
List(items) == [kind |-> "list", items |-> items]

\* the loop "for chunk in chunks" of process_in_chunks over the chunks still to
\* do; on a DataFrame the loop body is "result.append(result)", on a Series
\* "results.append(result)"
RECURSIVE chunk_loop(_, _, _, _, _, _, _)
chunk_loop(slf, kind, chunks, fail_at, queries, calls, results) ==
    IF chunks = <<>> THEN Ended(Return(results), queries, calls)
    ELSE LET q == query(slf, Head(chunks), Len(calls) + 1 # fail_at) IN
         IF q.out.kind = "raise"
         THEN Ended(q.out, Append(queries, Head(chunks)), calls \o q.calls)
         ELSE IF kind = "DataFrame"
         THEN Ended(NoAttr("append"), Append(queries, Head(chunks)), calls \o q.calls)
         ELSE chunk_loop(slf, kind, Tail(chunks), fail_at,
                         Append(queries, Head(chunks)), calls \o q.calls,
                         Append(results, q.out.value))

\* LLMProvider.process_in_chunks
process_in_chunks(slf, rows, fail_at) ==
    IF rows.kind \in {"DataFrame", "Series"}
    THEN LET rendered == formated_rows(slf, rows.kind, _convert_to_dicts(rows).value) IN
         IF rendered.kind = "raise" THEN Ended(rendered, <<>>, <<>>)
         ELSE IF rows.kind = "Series"
         THEN Ended(Raise("TypeError", "make_chunks() missing 1 required positional argument: 'max_tokens'"),
                    <<>>, <<>>)
         ELSE LET chunks == make_chunks(rendered.value, slf.max_tokens) IN
              IF chunks.kind # "list"
              THEN Ended(Raise("TypeError", "'NoneType' object is not iterable"), <<>>, <<>>)
              ELSE chunk_loop(slf, rows.kind, chunks.items, fail_at, <<>>, <<>>, <<>>)
    ELSE Ended(Raise("TypeError", "Input should be of type Pandas DataFrame or Pandas Series"),
               <<>>, <<>>)

\* ------------------------------------------------------------------- state

VARIABLES
    pk,     \* a call of make_chunks: its arguments, its position and its locals
    self,   \* the LLMProvider instance: its attributes by name
    last    \* the latest method call on self: its arguments and how it ended

vars == <<pk, self, last>>

\* ------------------------------------------------------------------ inputs

\* prompts given to make_chunks: "", "a", "b", "a b", "a\nb", "a b a b"
PackPrompts == {<<>>, <<"a">>, <<"b">>, <<"a", SP, "b">>, <<"a", NL, "b">>,
                <<"a", SP, "b", SP, "a", SP, "b">>}

\* all sequences over S of length at most n
SeqsUpTo(S, n) == UNION {[1..k -> S] : k \in 0..n}

\* prompt templates: "Q {salary}" and "Q {}"
Templates == {<<Lit("Q"), Lit(SP), Field("salary")>>, <<Lit("Q"), Lit(SP), Auto>>}

\* cell values, as str() prints them: "a", "a b"
Values == {<<"a">>, <<"a", SP, "b">>}

\* the column sets of the DataFrames given
Columns == {{"salary"}, {"emp_name"}}

\* the inputs given to the process_* methods
Inputs ==
    {DataFrame(r) : r \in UNION {SeqsUpTo([c -> Values], MaxRows) : c \in Columns}}
    \cup {Series(v) : v \in SeqsUpTo(Values, MaxRows)}
    \cup {Other}

\* which backend call is not answered: none, the first, the second
FailAts == {0, 1, 2}

Providers == {"openai", "huggingface", "cohere"}
Models == {None, Str("gpt2")}

NoCall == [op |-> "none", rows |-> Other, fail_at |-> 0,
           out |-> Return(None), queries |-> <<>>, calls |-> <<>>]

PkIdle == [pc |-> "idle", prompts |-> <<>>, max_tokens |-> 0, i |-> 0,
           chunks |-> <<>>, sub_chunks |-> <<>>, token |-> 0, ret |-> None]

\* ------------------------------------------------------ the packer, stepwise

\* make_chunks is entered with its arguments; its locals are initialised
PackInit ==
    /\ \E prompts \in SeqsUpTo(PackPrompts, MaxPrompts), max_tokens \in 1..MaxBudget :
         pk = [pc |-> "loop", prompts |-> prompts, max_tokens |-> max_tokens, i |-> 0,
               chunks |-> make_chunks_init.chunks,
               sub_chunks |-> make_chunks_init.sub_chunks,
               token |-> make_chunks_init.token, ret |-> None]
    /\ self = LLMProvider("openai", Str("key"), <<>>, 0, None)
    /\ last = NoCall

\* the packer's locals as the record the step operators work on
PkLocals == [chunks |-> pk.chunks, sub_chunks |-> pk.sub_chunks, token |-> pk.token]

\* one iteration of the for loop
PackStep ==
    /\ pk.pc = "loop"
    /\ pk.i < Len(pk.prompts)
    /\ LET st == make_chunks_step(PkLocals, pk.prompts[pk.i + 1], pk.max_tokens)
       IN pk' = [pk EXCEPT !.i = pk.i + 1, !.chunks = st.chunks,
                           !.sub_chunks = st.sub_chunks, !.token = st.token]
    /\ UNCHANGED <<self, last>>

\* the loop is over: the left-over flush, and the function returns
PackFlush ==
    /\ pk.pc = "loop"
    /\ pk.i = Len(pk.prompts)
    /\ LET st == make_chunks_flush(PkLocals)
       IN pk' = [pk EXCEPT !.pc = "done", !.chunks = st.chunks,
                           !.ret = make_chunks(pk.prompts, pk.max_tokens)]
    /\ UNCHANGED <<self, last>>

PackNext == PackStep \/ PackFlush

SpecPack == PackInit /\ [][PackNext]_vars

\* ------------------------------------------------------------- the gateway

\* an LLMProvider has been constructed
Init ==
    /\ \E provider \in Providers, hf_model \in Models,
          prompt_template \in Templates, max_tokens \in 1..MaxTokens :
         self = LLMProvider(provider, Str("key"), prompt_template, max_tokens, hf_model)
    /\ last = NoCall
    /\ pk = PkIdle

Called(op, rows, fail_at, end) ==
    [op |-> op, rows |-> rows, fail_at |-> fail_at,
     out |-> end.out, queries |-> end.queries, calls |-> end.calls]

\* self.query(prompt), called directly
Query ==
    /\ \E prompt \in PackPrompts, fail_at \in 0..1 :
         LET q == query(self, prompt, 1 # fail_at)
         IN last' = Called("query", Series(<<prompt>>), fail_at,
                           Ended(q.out, <<prompt>>, q.calls))
    /\ UNCHANGED <<self, pk>>

ProcessRowByRow ==
    /\ \E rows \in Inputs, fail_at \in FailAts :
         last' = Called("process_row_by_row", rows, fail_at,
                        process_row_by_row(self, rows, fail_at))
    /\ UNCHANGED <<self, pk>>

ProcessInOneBigChunk ==
    /\ \E rows \in Inputs, fail_at \in 0..1 :
         last' = Called("process_in_one_big_chunk", rows, fail_at,
                        process_in_one_big_chunk(self, rows, fail_at))
    /\ UNCHANGED <<self, pk>>

ProcessInChunks ==
    /\ \E rows \in Inputs, fail_at \in 0..1 :
         last' = Called("process_in_chunks", rows, fail_at,
                        process_in_chunks(self, rows, fail_at))
    /\ UNCHANGED <<self, pk>>

Next == Query \/ ProcessRowByRow \/ ProcessInOneBigChunk \/ ProcessInChunks

Spec == Init /\ [][Next]_vars

\* ------------------------------------------------- properties of the packer

PackDone == pk.pc = "done"

\* the estimates of the packer's prompts, in order
Estimates == [i \in 1..Len(pk.prompts) |-> count_tokens(pk.prompts[i])]

\* every prompt alone fits the budget
AllFit == \A i \in 1..Len(pk.prompts) : Estimates[i] <= pk.max_tokens

\* text.split("\n")
RECURSIVE split_lines(_)
split_lines(text) ==
    IF \A i \in 1..Len(text) : text[i] # NL THEN <<text>>
    ELSE LET at == CHOOSE i \in 1..Len(text) :
                     text[i] = NL /\ \A j \in 1..(i - 1) : text[j] # NL
         IN <<SubSeq(text, 1, at - 1)>> \o split_lines(SubSeq(text, at + 1, Len(text)))

\* the chunks split on newlines, concatenated in chunk order
RECURSIVE Resplit(_)
Resplit(chunks) ==
    IF chunks = <<>> THEN <<>> ELSE split_lines(Head(chunks)) \o Resplit(Tail(chunks))

\* A partition of prompts 1..n into non-empty contiguous groups is the set of
\* the places after which it cuts, a subset of 1..n-1.
Cuts == SUBSET (1..(Len(pk.prompts) - 1))

\* where the groups of a cut set end, and the number of groups
Ends(cuts) == IF pk.prompts = <<>> THEN {} ELSE cuts \cup {Len(pk.prompts)}
EndOf(cuts, k) == CHOOSE e \in Ends(cuts) : Cardinality({x \in Ends(cuts) : x < e}) = k - 1
StartOf(cuts, k) == IF k = 1 THEN 1 ELSE EndOf(cuts, k - 1) + 1

\* the groups of a cut set, each a sequence of prompts
Groups(cuts) ==
    [k \in 1..Cardinality(Ends(cuts)) |->
       SubSeq(pk.prompts, StartOf(cuts, k), EndOf(cuts, k))]

RECURSIVE Sum(_)
Sum(xs) == IF xs = <<>> THEN 0 ELSE Head(xs) + Sum(Tail(xs))

\* the total estimate of a group: the sum of its prompts' estimates
GroupEstimate(group) == Sum([i \in 1..Len(group) |-> count_tokens(group[i])])

\* every group of the cut set is within the budget
WithinBudget(cuts) ==
    \A k \in 1..Cardinality(Ends(cuts)) : GroupEstimate(Groups(cuts)[k]) <= pk.max_tokens

\* the chunk list is the cut set's groups, each joined with newlines
ChunksAre(cuts) ==
    /\ Len(pk.chunks) = Cardinality(Ends(cuts))
    /\ \A k \in 1..Len(pk.chunks) : pk.chunks[k] = join(<<NL>>, Groups(cuts)[k])

\* C1: every chunk in the packer's chunk list has a token estimate of at most
\* the budget, unless the chunk is a single prompt whose own estimate exceeds
\* the budget.
C1_ChunkWithinBudget ==
    \A k \in 1..Len(pk.chunks) :
       \/ count_tokens(pk.chunks[k]) <= pk.max_tokens
       \/ \E i \in 1..Len(pk.prompts) :
            pk.chunks[k] = pk.prompts[i] /\ Estimates[i] > pk.max_tokens

\* a finished packing with an over-budget single-prompt chunk and a chunk of
\* several prompts that fills the budget exactly
C1_Witness ==
    /\ PackDone
    /\ \E k \in 1..Len(pk.chunks) : count_tokens(pk.chunks[k]) > pk.max_tokens
    /\ \E k \in 1..Len(pk.chunks) :
         /\ count_tokens(pk.chunks[k]) = pk.max_tokens
         /\ \A i \in 1..Len(pk.prompts) : pk.chunks[k] # pk.prompts[i]

NoNewlineInPrompts ==
    \A i \in 1..Len(pk.prompts) : \A j \in 1..Len(pk.prompts[i]) : pk.prompts[i][j] # NL

C3_NoEmptyChunk ==
    PackDone =>
      /\ \E cuts \in Cuts : ChunksAre(cuts)
      /\ (Len(pk.prompts) = 1 => pk.chunks = pk.prompts)
      /\ (pk.prompts = <<>> => pk.chunks = <<>>)

Shaped == last.rows.kind \in {"DataFrame", "Series"}

\* the prompts rendered from the latest call's records (or the exception)
Rendered == formated_rows(self, last.rows.kind, last.rows.items)

\* the latest call's records all render, and their prompts joined by newlines
Renders == Shaped /\ Rendered.kind = "return"
Joined == join(<<NL>>, Rendered.value)

\* the gateway was constructed for a supported backend, with what it needs
ValidGateway ==
    \/ self.provider = "openai"
    \/ self.provider = "huggingface" /\ Truthy(self.hf_model)

\* the responses to a sequence of prompts
Responses(prompts) == [i \in 1..Len(prompts) |-> Generated(prompts[i])]

TooLarge == Raise("ValueError", "Total prompt exceeds the maximum token limit")
NotInitialized ==
    Raise("ValueError", "Hugging Face pipeline is not initialized. Please provide a valid Hugging Face model.")

\* C5: process_in_one_big_chunk on records whose joined prompts estimate above
\* max_tokens ends with the prompt-too-large error, having passed nothing to
\* query and made no backend call.
C5_TooLargeFailsFast ==
    (last.op = "process_in_one_big_chunk" /\ Renders
       /\ count_tokens(Joined) > self.max_tokens)
    => /\ last.out = TooLarge
       /\ last.queries = <<>>
       /\ last.calls = <<>>

\* process_in_one_big_chunk has refused a two-record DataFrame
C5_Witness ==
    /\ last.op = "process_in_one_big_chunk"
    /\ last.rows.kind = "DataFrame" /\ Len(last.rows.items) = 2
    /\ Renders /\ count_tokens(Joined) > self.max_tokens
    /\ last.out = TooLarge

\* C6: process_in_one_big_chunk on records whose joined prompts estimate at
\* most max_tokens passes exactly the joined string to query, once, and ends
\* as that query call ends.
C6_OneQuery ==
    (last.op = "process_in_one_big_chunk" /\ Renders
       /\ count_tokens(Joined) <= self.max_tokens)
    => /\ last.queries = <<Joined>>
       /\ last.out = query(self, Joined, last.fail_at # 1).out

\* C7: process_row_by_row on N records, on a validly constructed gateway whose
\* backend answers, passes the N rendered prompts to query in input order and
\* returns their N responses in that order.
C7_OneQueryPerRow ==
    (last.op = "process_row_by_row" /\ Renders /\ ValidGateway /\ last.fail_at = 0)
    => /\ last.queries = Rendered.value
       /\ last.out = Return(Responses(Rendered.value))

\* C8: process_in_chunks, on a validly constructed gateway whose backend
\* answers, passes the packer's chunks for max_tokens to query, one call per
\* chunk in chunk order, and returns the per-chunk responses.
C8_OneQueryPerChunk ==
    (last.op = "process_in_chunks" /\ Renders /\ ValidGateway /\ last.fail_at = 0)
    => /\ last.queries = make_chunks_chunks(Rendered.value, self.max_tokens)
       /\ last.out = Return(Responses(make_chunks_chunks(Rendered.value, self.max_tokens)))

\* C9: on a 'huggingface' gateway constructed without a model, every query
\* call ends with the not-initialized error of the explicit pipeline check,
\* and no backend call is made.
C9_NotInitializedError ==
    (last.op = "query" /\ self.provider = "huggingface" /\ ~Truthy(self.hf_model))
    => /\ last.out = NotInitialized
       /\ last.calls = <<>>

\* C10: on a 'huggingface' gateway constructed with a model, the pipeline was
\* loaded at construction, and every query call whose generation succeeds is
\* one call of that pipeline and returns its generated text.
C10_QueryUsesPipeline ==
    (self.provider = "huggingface" /\ Truthy(self.hf_model))
    => /\ \E a \in {"hf_pipline", "hf_pipeline"} :
            a \in DOMAIN self /\ self[a] = pipeline("text-generation", self.hf_model)
       /\ (last.op = "query" /\ last.fail_at = 0)
            => /\ Len(last.calls) = 1
               /\ last.calls[1].backend = "huggingface"
               /\ last.calls[1].engine = self.hf_model.v
               /\ last.calls[1].prompt = last.rows.items[1]
               /\ last.out = Return(Generated(last.rows.items[1]))

====
